---- MODULE Spec2Model ----
(***************************************************************************)
(* Workout_Logging_App: the workout-session lifecycle, the set logger, the *)
(* personal-record tracker and the exercise catalog of src/app.py over the *)
(* tables of src/models.py.                                                *)
(*                                                                         *)
(* The relational store is the state.  Every HTTP request is a process     *)
(* that runs its handler one store statement at a time: each query and     *)
(* each commit of a handler is one step, so the steps of two requests      *)
(* interleave as they do between two worker threads or processes.  The     *)
(* store itself is reliable: a statement fails only when it violates a     *)
(* constraint of the schema or matches no row.                             *)
(*                                                                         *)
(* Nullable columns hold <<>> for NULL and <<v>> for the value v.          *)
(* Primary keys are never used twice (a sequence), the clock never goes    *)
(* back, and a commit takes effect as one step.  The variable history is   *)
(* not part of the store: it records every set that was ever stored, so    *)
(* that properties can speak of sets whose rows are deleted since.         *)
(***************************************************************************)
EXTENDS Integers, Sequences, FiniteSets, TLC

\* ---------------------------------------------------------------- bounds
MaxSessions == 2        \* WorkoutSession rows ever inserted
MaxLogs == 2            \* WorkoutLog rows ever inserted
MaxTime == 80           \* the clock stops here (seconds)
TickSeconds == 40       \* seconds the clock advances in one Tick
MaxExercises == 3       \* Exercise rows ever inserted, with the two of Fresh
MaxMeasures == 2        \* WeightLog and BloodworkLog rows ever inserted
Spread == 20            \* a bloodwork value shown is this near (tenths) to min or max

Reqs == {1, 2}          \* request slots: at most two requests in flight

\* ------------------------------------------------------ program constants
MinReps == 1
MaxReps == 1000
MinWeight == 0
MaxWeight == 10000

\* ------------------------------------------------------ nullable columns
NULL == <<>>
Some(v) == <<v>>
IsNull(x) == x = <<>>
Val(x) == x[1]

\* ----------------------------------------------------------------- text
\* A str is the sequence of its characters.  The letters that occur in the
\* names of this model, in both cases; every other character has no case.
Lowers == <<"a", "b", "c", "e", "h", "n", "p", "q", "r", "s", "t", "u">>
Uppers == <<"A", "B", "C", "E", "H", "N", "P", "Q", "R", "S", "T", "U">>

IndexIn(c, letters) == CHOOSE i \in 1..Len(letters) : letters[i] = c
IsLower(c) == \E i \in 1..Len(Lowers) : Lowers[i] = c
IsUpper(c) == \E i \in 1..Len(Uppers) : Uppers[i] = c
IsCased(c) == IsLower(c) \/ IsUpper(c)

\* str.upper() and str.lower() of one character
Upper(c) == IF IsLower(c) THEN Uppers[IndexIn(c, Lowers)] ELSE c
Lower(c) == IF IsUpper(c) THEN Lowers[IndexIn(c, Uppers)] ELSE c

\* str.strip(): the whitespace at both ends goes
RECURSIVE LStrip(_)
LStrip(s) == IF s # <<>> /\ s[1] = " " THEN LStrip(Tail(s)) ELSE s

RECURSIVE RStrip(_)
RStrip(s) ==
    IF s # <<>> /\ s[Len(s)] = " " THEN RStrip(SubSeq(s, 1, Len(s) - 1)) ELSE s

Strip(s) == RStrip(LStrip(s))

\* str.capitalize(): the first character in upper case, the rest in lower case
Capitalize(s) == [i \in 1..Len(s) |-> IF i = 1 THEN Upper(s[i]) ELSE Lower(s[i])]

\* str.title(): a cased character is in upper case when it follows a
\* character without case or starts the text, and in lower case otherwise
Title(s) ==
    [i \in 1..Len(s) |-> IF i = 1 \/ ~IsCased(s[i - 1]) THEN Upper(s[i])
                                                          ELSE Lower(s[i])]

BenchPress == <<"B", "e", "n", "c", "h", " ", "P", "r", "e", "s", "s">>
Squat == <<"S", "q", "u", "a", "t">>

\* ------------------------------------------------------------ form input
\* A form field as request.form.get returns it: absent or empty ("none"),
\* text that is no number ("bad"), or the text of the number v ("num").
Absent == [k |-> "none", v |-> 0]
Bad == [k |-> "bad", v |-> 0]
Num(n) == [k |-> "num", v |-> n]
\* the text "nan", which float() parses to the float that is no number
NaN == [k |-> "nan", v |-> 0]

\* What the clients of one run send.  A run of requests that come one after
\* another is about the life of the sessions of two users over time, who log
\* one and the same set (Lifecycle); or about the sets one user logs for two
\* exercises (Numbering); or about the form of add_set, with every kind of
\* value in every field around the limits the handler tests (Form); or about
\* the personal record of one user and one exercise: working sets of two
\* weights and two numbers of reps over time (Records), working sets of weight
\* 0 and of no weight (Triggers), warmup sets among working sets (Warmups);
\* or about the records of two users and two exercises (Footprint); or about
\* the catalog, with names in every spelling and the sets and records of two
\* users (Catalog); or about two users who send requests of every kind
\* (Everything).
\* A run
\* of requests that interleave is about one user who sends the same form
\* again and again (Racing), or working sets of two weights (PrRacing), or
\* who logs sets of an exercise while the exercise is deleted
\* (CatalogRacing).  Where
\* timed is FALSE the whole run happens
\* within one reading of the clock.
Lifecycle ==
    [users |-> {1, 2}, timed |-> TRUE,
     set_types |-> {"working"},
     exercise_ids |-> {Num(1)},
     reps |-> {Num(1)},
     weights |-> {Num(100)}]

Numbering ==
    [users |-> {1}, timed |-> FALSE,
     set_types |-> {"warmup"},
     exercise_ids |-> {Num(1), Num(2)},
     reps |-> {Num(1)},
     weights |-> {Absent}]

Form ==
    [users |-> {1}, timed |-> FALSE,
     set_types |-> {"working", "warmup", "dropset"},
     exercise_ids |-> {Absent, Bad, Num(1), Num(3)},
     reps |-> {Absent, Bad, Num(0), Num(1), Num(1000), Num(1001)},
     weights |-> {Absent, Bad, Num(-1), Num(0), Num(10000), Num(10001)}]

Records ==
    [users |-> {1}, timed |-> TRUE,
     set_types |-> {"working"},
     exercise_ids |-> {Num(1)},
     reps |-> {Num(10), Num(12)},
     weights |-> {Num(100), Num(200)}]

Triggers ==
    [users |-> {1}, timed |-> FALSE,
     set_types |-> {"working"},
     exercise_ids |-> {Num(1)},
     reps |-> {Num(10)},
     weights |-> {Absent, Num(0), Num(100)}]

Warmups ==
    [users |-> {1}, timed |-> FALSE,
     set_types |-> {"working", "warmup"},
     exercise_ids |-> {Num(1)},
     reps |-> {Num(10)},
     weights |-> {Num(100), Num(200)}]

Racing ==
    [users |-> {1}, timed |-> TRUE,
     set_types |-> {"working"},
     exercise_ids |-> {Num(1)},
     reps |-> {Num(1)},
     weights |-> {Num(100)}]

Footprint ==
    [users |-> {1, 2}, timed |-> FALSE,
     set_types |-> {"working"},
     exercise_ids |-> {Num(1), Num(2)},
     reps |-> {Num(10)},
     weights |-> {Num(100), Num(200)}]

Catalog ==
    [users |-> {1, 2}, timed |-> FALSE,
     set_types |-> {"working"},
     exercise_ids |-> {Num(1), Num(2)},
     reps |-> {Num(10)},
     weights |-> {Num(100)},
     names |-> {<<>>, <<" ", "a", " ">>,
                <<" ", "b", "e", "n", "c", "h", " ", "p", "r", "e", "s", "s", " ">>,
                <<"S", "Q", "U", "A", "T">>,
                <<"p", "u", "s", "h", "-", "u", "p">>},
     delete_ids |-> {1, 3, 9}]

Everything ==
    [users |-> {1, 2}, timed |-> FALSE,
     set_types |-> {"working"},
     exercise_ids |-> {Num(1), Num(2)},
     reps |-> {Num(10)},
     weights |-> {Num(100)},
     names |-> {<<"S", "Q", "U", "A", "T">>,
                <<"p", "u", "s", "h", "-", "u", "p">>},
     delete_ids |-> {1, 9}]

CatalogRacing ==
    [users |-> {1}, timed |-> FALSE,
     set_types |-> {"working"},
     exercise_ids |-> {Num(1)},
     reps |-> {Num(10)},
     weights |-> {Num(100)},
     delete_ids |-> {1}]

PrRacing ==
    [users |-> {1}, timed |-> FALSE,
     set_types |-> {"working"},
     exercise_ids |-> {Num(1)},
     reps |-> {Num(10)},
     weights |-> {Num(100), Num(200)}]

\* or two heavier sets, sent at once by a user whose record stands at 50 from
\* a set logged before the run (logged counts the sets stored before it)
PrDropping ==
    [users |-> {1}, timed |-> FALSE,
     set_types |-> {"working"},
     exercise_ids |-> {Num(1)},
     reps |-> {Num(10)},
     weights |-> {Num(100), Num(200)},
     logged |-> 1]

\* or about the measurements of one user: body-weight logs with every kind of
\* value around the limits add_weight_log tests, and bloodwork panels with two
\* of the nine fields, in tenths of their units
Measuring ==
    [users |-> {1}, timed |-> FALSE,
     log_dates |-> {Absent, Bad},
     weights |-> {Absent, Bad, NaN, Num(0), Num(1), Num(500), Num(501)},
     body_fats |-> {Absent, NaN, Num(-1), Num(0), Num(100), Num(101)},
     visceral_fats |-> {Absent, Num(50), Num(101)},
     test_dates |-> {Absent, Bad, Num(7)},
     testosterone_totals |-> {Absent, Bad, Num(-10), Num(2880), Num(10090)},
     hba1cs |-> {Absent, Num(40), Num(70)}]

SeqProfiles == {Lifecycle, Numbering, Form}
PrProfiles == {Records, Triggers, Warmups, Footprint}

\* ----------------------------------------------------------------- state
VARIABLES
    sessions,       \* table workout_sessions: set of rows
    logs,           \* table workout_logs: set of rows
    prs,            \* table personal_records: set of rows
    exercises,      \* table exercises: set of rows
    nextSessionId,  \* next primary key of workout_sessions
    nextLogId,      \* next primary key of workout_logs
    nextPrId,       \* next primary key of personal_records
    nextExerciseId, \* next primary key of exercises
    history,        \* every set ever stored, with the user who logged it
    now,            \* datetime.utcnow(), in seconds
    inputs,         \* the profile of the run's clients: never changes
    weight_logs,    \* table weight_logs: set of rows
    bloodwork_logs, \* table bloodwork_logs: set of rows
    nextWeightLogId,    \* next primary key of weight_logs
    nextBloodworkId,    \* next primary key of bloodwork_logs
    shown,          \* what the Normalizer returned last: field, status, percentage
    pc,             \* pc[r]: the statement request r executes next
    req             \* req[r]: the handler's local variables

vars == <<sessions, logs, prs, exercises, nextSessionId, nextLogId, nextPrId,
          nextExerciseId, history, now, inputs, weight_logs, bloodwork_logs,
          nextWeightLogId, nextBloodworkId, shown, pc, req>>
store == <<sessions, logs, prs, exercises>>
keys == <<nextSessionId, nextLogId, nextPrId, nextExerciseId>>
measures == <<weight_logs, bloodwork_logs, nextWeightLogId, nextBloodworkId,
              shown>>
rest == <<keys, history, now, inputs, measures>>

\* The locals of a request that is not running: the route (op), current_user
\* (user), the form fields as sent (set_type, exercise_id, reps, weight), the
\* id and start_time of the loaded active_session (sid, start), set_number,
\* the id of the workout_log the handler stored (log_id),
\* the id of the pr update_pr loaded, the field name as sent to add_exercise
\* (form_name) and the name the handler makes of it (name), the ids
\* of the rows the two bulk deletes of delete_exercise matched (del_prs,
\* del_logs), the fields of the two measurement forms as sent (weight again,
\* log_date, body_fat_percentage, visceral_fat; test_date, testosterone_total,
\* hba1c), and the outcome the handler returns.
NoReq == [op |-> "none", user |-> 0, sid |-> NULL, start |-> NULL,
          set_type |-> "none", exercise_id |-> Absent, reps |-> Absent,
          weight |-> Absent, set_number |-> 0, log_id |-> NULL, pr |-> NULL,
          form_name |-> <<>>, name |-> <<>>,
          del_prs |-> {}, del_logs |-> {},
          log_date |-> Absent, body_fat_percentage |-> Absent,
          visceral_fat |-> Absent, test_date |-> Absent,
          testosterone_total |-> Absent, hba1c |-> Absent,
          result |-> "none"]

\* row of workout_sessions
WorkoutSession(id, user_id, start_time) ==
    [id |-> id, user_id |-> user_id, start_time |-> start_time,
     end_time |-> NULL, duration_minutes |-> NULL]

\* row of workout_logs, as add_set makes it: the constructor is given neither
\* calories nor time_minutes, which have no default; the primary key grows
\* with every insert, so the order of ids is the order of insertion
WorkoutLog(id, session_id, exercise_id, set_number, reps, weight, set_type) ==
    [id |-> id, session_id |-> session_id, exercise_id |-> exercise_id,
     set_number |-> set_number, reps |-> reps, weight |-> weight,
     calories |-> NULL, time_minutes |-> NULL, set_type |-> set_type]

\* row of personal_records
PersonalRecord(id, user_id, exercise_id, weight, reps, achieved_at) ==
    [id |-> id, user_id |-> user_id, exercise_id |-> exercise_id, weight |-> weight,
     reps |-> reps, achieved_at |-> achieved_at]

\* Exercise with is_cardio set
ExerciseCardio(id, name) ==
    [id |-> id, name |-> name, is_cardio |-> TRUE]

\* row of exercises, as add_exercise makes it: is_cardio takes its default
Exercise(id, name) ==
    [id |-> id, name |-> name, is_cardio |-> FALSE]

\* ------------------------------------------------------------- queries
\* OpenSessions without the user_id filter
OpenSessionsOfAnyone(u) == {s \in sessions : IsNull(s.end_time)}

\* WorkoutSession.query.filter_by(user_id=u, end_time=None): the rows
OpenSessions(u) == {s \in sessions : s.user_id = u /\ IsNull(s.end_time)}

\* WorkoutLog.query.filter_by(session_id=sid, exercise_id=ex): the rows
SetsOf(sid, ex) == {l \in logs : l.session_id = sid /\ l.exercise_id = ex}

\* PRsOf without the user_id filter
PRsOfExercise(u, ex) == {p \in prs : p.exercise_id = ex}

\* PersonalRecord.query.filter_by(user_id=u, exercise_id=ex): the rows
PRsOf(u, ex) == {p \in prs : p.user_id = u /\ p.exercise_id = ex}

Max(S) == CHOOSE m \in S : \A x \in S : x <= m

\* NextSetNumber without the exercise_id filter: numbers run per session
NextSetNumberPerSession(sid, ex) ==
    IF {l \in logs : l.session_id = sid} = {} THEN 1
    ELSE Max({l.set_number : l \in {m \in logs : m.session_id = sid}}) + 1

\* .order_by(WorkoutLog.set_number.desc()).first(), then
\* set_number = (last_set.set_number + 1) if last_set else 1
NextSetNumber(sid, ex) ==
    IF SetsOf(sid, ex) = {} THEN 1
    ELSE Max({l.set_number : l \in SetsOf(sid, ex)}) + 1

\* IntMinutes with round() in the place of int()
IntMinutesRounded(x) == (x + 30) \div 60

\* int(x / 60) for x seconds: Python's int() truncates toward zero
IntMinutes(x) == IF x >= 0 THEN x \div 60 ELSE -((-x) \div 60)

\* ---------------------------------------------------------- validation
\* set_type not in ['working', 'warmup']
SetTypeCheck(t) == IF t \in {"working", "warmup"} THEN "ok" ELSE "InvalidSetType"

\* not exercise_id, then int(exercise_id)
ExerciseIdCheck(raw) == IF raw.k = "num" THEN "ok" ELSE "ValidationFailed"

\* RepsCheck with <= and >= in the place of < and >
RepsCheckExclusive(raw) ==
    IF raw.k # "num" THEN "ValidationFailed"
    ELSE IF raw.v <= MinReps \/ raw.v >= MaxReps THEN "OutOfRange"
    ELSE "ok"

\* int(reps), then reps_int < 1 or reps_int > 1000
RepsCheck(raw) ==
    IF raw.k # "num" THEN "ValidationFailed"
    ELSE IF raw.v < MinReps \/ raw.v > MaxReps THEN "OutOfRange"
    ELSE "ok"

\* if weight: float(weight), then weight_float < 0 or weight_float > 10000
WeightCheck(raw) ==
    IF raw.k = "none" THEN "ok"
    ELSE IF raw.k = "bad" THEN "ValidationFailed"
    ELSE IF raw.v < MinWeight \/ raw.v > MaxWeight THEN "OutOfRange"
    ELSE "ok"

\* weight_float after the validation: None when the field is absent
WeightFloat(raw) == IF raw.k = "none" THEN NULL ELSE Some(raw.v)

\* exercise_id_int and reps_int after the validation
AsInt(raw) == raw.v

\* PrApplicable without the test of set_type
PrApplicableAnyType(set_type, weight) == ~IsNull(weight) /\ Val(weight) # 0

\* set_type == 'working' and weight_float: None and 0.0 are both falsy
PrApplicable(set_type, weight) ==
    set_type = "working" /\ ~IsNull(weight) /\ Val(weight) # 0

\* ------------------------------------------------------------ requests
\* requests that will still insert a row of the table op writes
Pending(op, labels) == Cardinality({r \in Reqs : req[r].op = op /\ pc[r] \in labels})

Goto(r, label, locals) ==
    /\ pc' = [pc EXCEPT ![r] = label]
    /\ req' = [req EXCEPT ![r] = locals]

\* the handler returns with the locals q: the redirect, or the 500 page of an
\* exception nothing catches.  What stays is the request and its outcome.
ReturnWith(r, q, res) ==
    Goto(r, "done", [NoReq EXCEPT !.op = q.op, !.user = q.user,
                                  !.set_type = q.set_type,
                                  !.exercise_id = q.exercise_id,
                                  !.reps = q.reps, !.weight = q.weight,
                                  !.form_name = q.form_name, !.name = q.name,
                                  !.log_date = q.log_date,
                                  !.body_fat_percentage = q.body_fat_percentage,
                                  !.visceral_fat = q.visceral_fat,
                                  !.test_date = q.test_date,
                                  !.testosterone_total = q.testosterone_total,
                                  !.hba1c = q.hba1c,
                                  !.result = res])

Return(r, res) == ReturnWith(r, req[r], res)

Ops == {"start", "finish", "cancel", "add_set"}
CatalogOps == {"add_exercise", "delete_exercise"}
MeasureOps == {"add_weight_log", "add_bloodwork"}

\* the first store statement of each handler
FirstStatement(op) ==
    CASE op = "start" -> "start_query"
      [] op = "finish" -> "finish_query"
      [] op = "cancel" -> "cancel_query"
      [] op = "add_set" -> "add_set_session"
      [] op = "add_weight_log" -> "add_weight_log_commit"
      [] op = "add_bloodwork" -> "add_bloodwork_commit"
      [] op = "add_exercise" -> "add_exercise_query"
      [] op = "delete_exercise" -> "delete_get"

\* nothing is normalized yet
NotShown == [field_name |-> "none", status |-> "none", percentage |-> NULL]

\* the store after db.create_all() and two add_exercise requests; no request
\* in flight
FreshLogging ==
    /\ sessions = {}
    /\ logs = {}
    /\ prs = {}
    /\ exercises = {Exercise(1, BenchPress), Exercise(2, Squat)}
    /\ nextSessionId = 1
    /\ nextLogId = 1
    /\ nextPrId = 1
    /\ nextExerciseId = 3
    /\ history = {}
    /\ now = 0
    /\ pc = [r \in Reqs |-> "idle"]
    /\ req = [r \in Reqs |-> NoReq]

\* and no measurement is stored
Fresh ==
    /\ FreshLogging
    /\ weight_logs = {}
    /\ bloodwork_logs = {}
    /\ nextWeightLogId = 1
    /\ nextBloodworkId = 1
    /\ shown = NotShown

Init == Fresh /\ inputs = Racing

SeqInit == Fresh /\ inputs \in SeqProfiles

PrInit == Fresh /\ inputs \in PrProfiles

PrRaceInit == Fresh /\ inputs = PrRacing

CatalogInit == Fresh /\ inputs = Catalog

CatalogRaceInit == Fresh /\ inputs = CatalogRacing

AllInit == Fresh /\ inputs = Everything

\* time passes
Tick ==
    /\ inputs.timed
    /\ now + TickSeconds <= MaxTime
    /\ now' = now + TickSeconds
    /\ UNCHANGED <<store, keys, history, inputs, measures, pc, req>>

\* the sets stored before the run began
Logged == IF "logged" \in DOMAIN inputs THEN inputs.logged ELSE 0

\* a request of user u for the route op arrives (login_required passed)
Begin(r, op, u) ==
    /\ pc[r] = "idle"
    /\ op = "start" =>
         nextSessionId + Pending("start", {"start_query", "start_commit"}) <= MaxSessions
    /\ op = "add_set" =>
         nextLogId + Pending("add_set", {"add_set_session", "add_set_exercise",
                                         "add_set_last", "add_set_commit"})
           <= MaxLogs + Logged
    /\ op = "add_exercise" =>
         nextExerciseId + Pending("add_exercise", {"add_exercise_query",
                                                   "add_exercise_commit"}) <= MaxExercises
    /\ op \in MeasureOps =>
         (nextWeightLogId - 1) + (nextBloodworkId - 1)
           + Cardinality({q \in Reqs : req[q].op \in MeasureOps /\ pc[q] # "done"})
           < MaxMeasures
    /\ Goto(r, FirstStatement(op), [NoReq EXCEPT !.op = op, !.user = u])
    /\ UNCHANGED <<store, rest>>

\* the response is sent; the slot is free again
Reply(r) ==
    /\ pc[r] = "done"
    /\ Goto(r, "idle", NoReq)
    /\ UNCHANGED <<store, rest>>

\* ------------------------------------------------------- start_workout
\* StartQuery without the test of active_session
StartQueryNoCheck(r) ==
    /\ pc[r] = "start_query"
    /\ Goto(r, "start_commit", req[r])
    /\ UNCHANGED <<store, rest>>

\* active_session = ...first(); if not active_session: ...
StartQuery(r) ==
    /\ pc[r] = "start_query"
    /\ IF OpenSessions(req[r].user) # {}
       THEN Return(r, "ok")
       ELSE Goto(r, "start_commit", req[r])
    /\ UNCHANGED <<store, rest>>

\* InsertSession under a unique index on (user_id) WHERE end_time IS NULL
InsertSessionUnique(u) ==
    IF OpenSessions(u) # {}
    THEN UNCHANGED <<sessions, nextSessionId>>
    ELSE /\ sessions' = sessions \cup {WorkoutSession(nextSessionId, u, now)}
         /\ nextSessionId' = nextSessionId + 1

\* the INSERT of start_workout: no constraint of workout_sessions can reject it
InsertSession(u) ==
    /\ sessions' = sessions \cup {WorkoutSession(nextSessionId, u, now)}
    /\ nextSessionId' = nextSessionId + 1

\* session = WorkoutSession(...); db.session.add(session); db.session.commit()
StartCommit(r) ==
    /\ pc[r] = "start_commit"
    /\ InsertSession(req[r].user)
    /\ Return(r, "ok")
    /\ UNCHANGED <<logs, prs, exercises, nextLogId, nextPrId, nextExerciseId,
                   history, now, inputs,
                   measures>>

\* ------------------------------------------------------ finish_workout
\* FinishQuery that reports an error when no session is open
FinishQueryStrict(r) ==
    /\ pc[r] = "finish_query"
    /\ IF OpenSessions(req[r].user) = {}
       THEN Return(r, "NoActiveSession")
       ELSE \E s \in OpenSessions(req[r].user) :
              Goto(r, "finish_commit",
                   [req[r] EXCEPT !.sid = Some(s.id), !.start = Some(s.start_time)])
    /\ UNCHANGED <<store, rest>>

\* active_session = ...first(): any open row of the user (no ORDER BY)
FinishQuery(r) ==
    /\ pc[r] = "finish_query"
    /\ IF OpenSessions(req[r].user) = {}
       THEN Return(r, "ok")
       ELSE \E s \in OpenSessions(req[r].user) :
              Goto(r, "finish_commit",
                   [req[r] EXCEPT !.sid = Some(s.id), !.start = Some(s.start_time)])
    /\ UNCHANGED <<store, rest>>

\* the row of session sid closed at time t, given the start_time the handler
\* loaded: end_time = utcnow(); duration_minutes = int(total_seconds() / 60)
Closed(s, start, t) ==
    [s EXCEPT !.end_time = Some(t), !.duration_minutes = Some(IntMinutes(t - start))]

\* UPDATE workout_sessions SET end_time, duration_minutes WHERE id = sid; the
\* ORM raises StaleDataError when the row is gone, and nothing catches it
FinishCommit(r) ==
    /\ pc[r] = "finish_commit"
    /\ LET sid == Val(req[r].sid)
           rows == {s \in sessions : s.id = sid}
       IN IF rows = {}
          THEN /\ UNCHANGED sessions
               /\ Return(r, "error500")
          ELSE /\ sessions' = (sessions \ rows) \cup
                              {Closed(s, Val(req[r].start), now) : s \in rows}
               /\ Return(r, "ok")
    /\ UNCHANGED <<logs, prs, exercises, rest>>

\* ------------------------------------------------------ cancel_workout
CancelQuery(r) ==
    /\ pc[r] = "cancel_query"
    /\ IF OpenSessions(req[r].user) = {}
       THEN Return(r, "ok")
       ELSE \E s \in OpenSessions(req[r].user) :
              Goto(r, "cancel_commit", [req[r] EXCEPT !.sid = Some(s.id)])
    /\ UNCHANGED <<store, rest>>

\* CascadedLogs of a relationship declared without cascade
NoCascade(sid) == {}

\* the rows of workout_logs the delete of session sid takes along
\* (relationship workout_logs, cascade='all, delete-orphan')
CascadedLogs(sid) == {l \in logs : l.session_id = sid}

\* db.session.delete(active_session); db.session.commit(): the flush deletes
\* the session's logs, then the session row
CancelCommit(r) ==
    /\ pc[r] = "cancel_commit"
    /\ LET sid == Val(req[r].sid)
       IN /\ logs' = logs \ CascadedLogs(sid)
          /\ sessions' = {s \in sessions : s.id # sid}
    /\ Return(r, "ok")
    /\ UNCHANGED <<prs, exercises, rest>>

\* ------------------------------------------------------------- add_set
\* AddSetSession that opens a session when it finds none, as the workout page
\* was once meant to ("Get or create active session")
AddSetSessionCreating(r) ==
    /\ pc[r] = "add_set_session"
    /\ OpenSessions(req[r].user) = {}
    /\ sessions' = sessions \cup {WorkoutSession(nextSessionId, req[r].user, now)}
    /\ nextSessionId' = nextSessionId + 1
    /\ Return(r, "NoActiveSession")
    /\ UNCHANGED <<logs, prs, exercises, nextLogId, nextPrId, nextExerciseId,
                   history, now, inputs,
                   measures>>

\* the session query, then the checks of set_type and of the exercise_id field
AddSetSession(r) ==
    /\ pc[r] = "add_set_session"
    /\ IF OpenSessions(req[r].user) = {}
       THEN Return(r, "NoActiveSession")
       ELSE \E s \in OpenSessions(req[r].user), t \in inputs.set_types,
               e \in inputs.exercise_ids :
              LET q == [req[r] EXCEPT !.sid = Some(s.id), !.set_type = t,
                                      !.exercise_id = e]
              IN IF SetTypeCheck(t) # "ok" THEN ReturnWith(r, q, SetTypeCheck(t))
                 ELSE IF ExerciseIdCheck(e) # "ok"
                      THEN ReturnWith(r, q, ExerciseIdCheck(e))
                      ELSE Goto(r, "add_set_exercise", q)
    /\ UNCHANGED <<store, rest>>

\* exercise = Exercise.query.get(exercise_id_int), then the checks of reps and
\* weight
AddSetExercise(r) ==
    /\ pc[r] = "add_set_exercise"
    /\ IF {e \in exercises : e.id = AsInt(req[r].exercise_id)} = {}
       THEN Return(r, "ExerciseNotFound")
       ELSE \E reps \in inputs.reps, weight \in inputs.weights :
              LET q == [req[r] EXCEPT !.reps = reps, !.weight = weight]
              IN IF RepsCheck(reps) # "ok" THEN ReturnWith(r, q, RepsCheck(reps))
                 ELSE IF WeightCheck(weight) # "ok"
                      THEN ReturnWith(r, q, WeightCheck(weight))
                      ELSE Goto(r, "add_set_last", q)
    /\ UNCHANGED <<store, rest>>

\* last_set = ...first(); set_number = (last_set.set_number + 1) if last_set else 1
AddSetLast(r) ==
    /\ pc[r] = "add_set_last"
    /\ Goto(r, "add_set_commit",
            [req[r] EXCEPT !.set_number =
                 NextSetNumber(Val(req[r].sid), AsInt(req[r].exercise_id))])
    /\ UNCHANGED <<store, rest>>

\* InsertLog under a unique index on (session_id, exercise_id, set_number)
InsertLogUnique(l) ==
    IF \E m \in logs : /\ m.session_id = l.session_id
                       /\ m.exercise_id = l.exercise_id
                       /\ m.set_number = l.set_number
    THEN UNCHANGED <<logs, nextLogId>>
    ELSE /\ logs' = logs \cup {l}
         /\ nextLogId' = nextLogId + 1

\* InsertLog that keeps the last set of every exercise of a session only
InsertLogReplacing(l) ==
    /\ logs' = {m \in logs : m.session_id # l.session_id \/ m.exercise_id # l.exercise_id}
                \cup {l}
    /\ nextLogId' = nextLogId + 1

\* the INSERT of add_set: workout_logs has no unique constraint, so the row
\* always goes in when its session and exercise rows exist
InsertLog(l) ==
    /\ logs' = logs \cup {l}
    /\ nextLogId' = nextLogId + 1

\* db.session.add(workout_log); db.session.commit(); then the test that leads
\* to update_pr.  When the session or the exercise row is gone, a store that
\* enforces foreign keys (PostgreSQL) rejects the INSERT and the
\* IntegrityError is not caught; one that does not (SQLite without the
\* foreign_keys pragma) stores the row.
AddSetCommit(r) ==
    /\ pc[r] = "add_set_commit"
    /\ LET q == req[r]
           parents == /\ \E s \in sessions : s.id = Val(q.sid)
                      /\ \E e \in exercises : e.id = AsInt(q.exercise_id)
           insert ==
               /\ InsertLog(WorkoutLog(nextLogId, Val(q.sid), AsInt(q.exercise_id),
                                       q.set_number, AsInt(q.reps),
                                       WeightFloat(q.weight), q.set_type))
               /\ history' = history \cup {[user_id |-> q.user, id |-> nextLogId,
                                              exercise_id |-> AsInt(q.exercise_id),
                                              reps |-> AsInt(q.reps),
                                              weight |-> WeightFloat(q.weight),
                                              set_type |-> q.set_type]}
               /\ IF PrApplicable(q.set_type, WeightFloat(q.weight))
                  THEN Goto(r, "pr_query", [q EXCEPT !.log_id = Some(nextLogId)])
                  ELSE Return(r, "ok")
       IN \E enforced \in BOOLEAN :
            IF enforced /\ ~parents
            THEN /\ UNCHANGED <<logs, nextLogId, history>>
                 /\ Return(r, "error500")
            ELSE insert
    /\ UNCHANGED <<sessions, prs, exercises, nextSessionId, nextPrId,
                   nextExerciseId, now, inputs,
                   measures>>

\* ----------------------------------------------------------- update_pr
\* PrBeats with >= in the place of >
PrBeatsOrTies(weight, found) == found = {} \/ \E p \in found : weight >= p.weight

\* if not pr or weight > pr.weight
PrBeats(weight, found) == found = {} \/ \E p \in found : weight > p.weight

\* update_pr(current_user.id, exercise.id, ...): the commit of add_set has
\* expired the loaded exercise, so reading exercise.id loads the row again
\* and raises ObjectDeletedError, which nothing catches, when it is gone.
\* Then pr = PersonalRecord.query.filter_by(...).first(), and the test.
PrQuery(r) ==
    /\ pc[r] = "pr_query"
    /\ LET w == AsInt(req[r].weight)
           ex == AsInt(req[r].exercise_id)
           found == PRsOf(req[r].user, ex)
       IN IF \A e \in exercises : e.id # ex
          THEN Return(r, "error500")
          ELSE IF PrBeats(w, found)
               THEN \E pr \in IF found = {} THEN {NULL}
                              ELSE {Some(p.id) : p \in {x \in found : PrBeats(w, {x})}} :
                      Goto(r, "pr_commit", [req[r] EXCEPT !.pr = pr])
               ELSE Return(r, "ok")
    /\ UNCHANGED <<store, rest>>

\* PrInsertRejected of a table without unique_user_exercise_pr
PrInsertUnconstrained(u, ex) == FALSE

\* UniqueConstraint('user_id', 'exercise_id', name='unique_user_exercise_pr')
\* rejects the INSERT of a second row of (u, ex)
PrInsertRejected(u, ex) == PRsOf(u, ex) # {}

\* PrUpdated that overwrites the weight alone
PrUpdatedWeightOnly(p, weight, reps, t) == [p EXCEPT !.weight = weight]

\* the row pr after pr.weight = weight; pr.reps = reps; pr.achieved_at = utcnow()
PrUpdated(p, weight, reps, t) ==
    [p EXCEPT !.weight = weight, !.reps = reps, !.achieved_at = t]

\* the commit of update_pr.  With a loaded pr: UPDATE personal_records SET
\* weight, reps, achieved_at WHERE id = pr.id (StaleDataError when the row is
\* gone).  Without: INSERT, which unique_user_exercise_pr rejects when a row
\* for (user, exercise) exists by now, and which a store that enforces foreign
\* keys rejects when the exercise is gone; add_set does not catch the error.
PrCommit(r) ==
    /\ pc[r] = "pr_commit"
    /\ LET q == req[r]
           ex == AsInt(q.exercise_id)
           rows == IF IsNull(q.pr) THEN {} ELSE {p \in prs : p.id = Val(q.pr)}
       IN IF IsNull(q.pr)
          THEN \E enforced \in BOOLEAN :
                 IF \/ PrInsertRejected(q.user, ex)
                    \/ enforced /\ \A e \in exercises : e.id # ex
                 THEN /\ UNCHANGED <<prs, nextPrId>>
                      /\ Return(r, "error500")
                 ELSE /\ prs' = prs \cup {PersonalRecord(nextPrId, q.user, ex,
                                              AsInt(q.weight), AsInt(q.reps), now)}
                      /\ nextPrId' = nextPrId + 1
                      /\ Return(r, "ok")
          ELSE IF rows = {}
               THEN /\ UNCHANGED <<prs, nextPrId>>
                    /\ Return(r, "error500")
               ELSE /\ prs' = (prs \ rows) \cup
                              {PrUpdated(p, AsInt(q.weight), AsInt(q.reps), now) : p \in rows}
                    /\ UNCHANGED nextPrId
                    /\ Return(r, "ok")
    /\ UNCHANGED <<sessions, logs, exercises, nextSessionId, nextLogId,
                   nextExerciseId, history, now, inputs,
                   measures>>

\* -------------------------------------------------------- add_exercise
\* name = request.form.get('name', '').strip(), the test of its length,
\* name = name.title(), and the query for an exercise of that name
AddExerciseQuery(r) ==
    /\ pc[r] = "add_exercise_query"
    /\ \E raw \in inputs.names :
         LET name == Strip(raw)
             q == [req[r] EXCEPT !.form_name = raw, !.name = Title(name)]
         IN IF Len(name) < 2
            THEN ReturnWith(r, [q EXCEPT !.name = name], "ValidationFailed")
            ELSE IF \E e \in exercises : e.name = q.name
                 THEN ReturnWith(r, q, "DuplicateExercise")
                 ELSE Goto(r, "add_exercise_commit", q)
    /\ UNCHANGED <<store, rest>>

\* db.session.add(exercise); db.session.commit(): the column name is unique,
\* and add_exercise does not catch the IntegrityError
AddExerciseCommit(r) ==
    /\ pc[r] = "add_exercise_commit"
    /\ IF \E e \in exercises : e.name = req[r].name
       THEN /\ UNCHANGED <<exercises, nextExerciseId>>
            /\ Return(r, "error500")
       ELSE /\ exercises' = exercises \cup {Exercise(nextExerciseId, req[r].name)}
            /\ nextExerciseId' = nextExerciseId + 1
            /\ Return(r, "ok")
    /\ UNCHANGED <<sessions, logs, prs, nextSessionId, nextLogId, nextPrId,
                   history, now, inputs,
                   measures>>

\* ----------------------------------------------------- delete_exercise
\* exercise = Exercise.query.get(exercise_id)
DeleteGet(r) ==
    /\ pc[r] = "delete_get"
    /\ \E id \in inputs.delete_ids :
         LET q == [req[r] EXCEPT !.exercise_id = Num(id)]
         IN IF \A e \in exercises : e.id # id
            THEN ReturnWith(r, q, "NotFound")
            ELSE Goto(r, "delete_prs", q)
    /\ UNCHANGED <<store, rest>>

\* PersonalRecord.query.filter_by(exercise_id=exercise.id).delete(): the rows
\* of every user that the statement matches are deleted in the transaction
DeletePrs(r) ==
    /\ pc[r] = "delete_prs"
    /\ Goto(r, "delete_logs",
            [req[r] EXCEPT !.del_prs =
                 {p.id : p \in {x \in prs : x.exercise_id = AsInt(req[r].exercise_id)}}])
    /\ UNCHANGED <<store, rest>>

\* WorkoutLog.query.filter_by(exercise_id=exercise.id).delete()
DeleteLogs(r) ==
    /\ pc[r] = "delete_logs"
    /\ Goto(r, "delete_commit",
            [req[r] EXCEPT !.del_logs =
                 {l.id : l \in {x \in logs : x.exercise_id = AsInt(req[r].exercise_id)}}])
    /\ UNCHANGED <<store, rest>>

\* DeletedPrs of a handler that leaves the records to the store
DeletedPrsNone(ids) == {}

\* the rows of personal_records the transaction deletes
DeletedPrs(ids) == {p \in prs : p.id \in ids}

\* db.session.delete(exercise); db.session.commit().  The relationships
\* workout_logs and prs of Exercise have no cascade, so the flush loads the
\* rows that still refer to the exercise (those committed after the bulk
\* deletes ran) and sets their exercise_id to NULL; the column is NOT NULL,
\* the IntegrityError is caught and the transaction is rolled back.  A
\* DELETE of the exercise that matches no row is only a warning.
DeleteCommit(r) ==
    /\ pc[r] = "delete_commit"
    /\ LET q == req[r]
           id == AsInt(q.exercise_id)
           left == {p \in prs : p.exercise_id = id /\ p.id \notin q.del_prs}
                   \cup {l \in logs : l.exercise_id = id /\ l.id \notin q.del_logs}
       IN IF left # {}
          THEN /\ UNCHANGED <<prs, logs, exercises>>
               /\ Return(r, "DeleteFailed")
          ELSE /\ prs' = prs \ DeletedPrs(q.del_prs)
               /\ logs' = {l \in logs : l.id \notin q.del_logs}
               /\ exercises' = {e \in exercises : e.id # id}
               /\ Return(r, "ok")
    /\ UNCHANGED <<sessions, rest>>

\* ---------------------------------------------------------------- specs
Step(r) ==
    \/ StartQuery(r) \/ StartCommit(r)
    \/ FinishQuery(r) \/ FinishCommit(r)
    \/ CancelQuery(r) \/ CancelCommit(r)
    \/ AddSetSession(r) \/ AddSetExercise(r) \/ AddSetLast(r) \/ AddSetCommit(r)
    \/ PrQuery(r) \/ PrCommit(r)
    \/ Reply(r)

\* requests of all users arrive at any time and interleave statement by
\* statement
Next ==
    \/ Tick
    \/ \E r \in Reqs, op \in Ops, u \in inputs.users : Begin(r, op, u)
    \/ \E r \in Reqs : Step(r)

Spec == Init /\ [][Next]_vars

\* the same within one reading of the clock, for the clients that race for
\* the personal record
PrRaceNext ==
    \/ \E r \in Reqs, op \in Ops, u \in inputs.users : Begin(r, op, u)
    \/ \E r \in Reqs : Step(r)

PrRaceSpec == PrRaceInit /\ [][PrRaceNext]_vars

\* the store after start_workout and one add_set of user 1: a working set of
\* 10 reps at 50 for exercise 1, which is the record
PrDropInit ==
    /\ inputs = PrDropping
    /\ sessions = {WorkoutSession(1, 1, 0)}
    /\ logs = {WorkoutLog(1, 1, 1, 1, 10, Some(50), "working")}
    /\ prs = {PersonalRecord(1, 1, 1, 50, 10, 0)}
    /\ exercises = {Exercise(1, BenchPress), Exercise(2, Squat)}
    /\ nextSessionId = 2
    /\ nextLogId = 2
    /\ nextPrId = 2
    /\ nextExerciseId = 3
    /\ history = {[user_id |-> 1, id |-> 1, exercise_id |-> 1, reps |-> 10,
                   weight |-> Some(50), set_type |-> "working"]}
    /\ now = 0
    /\ weight_logs = {}
    /\ bloodwork_logs = {}
    /\ nextWeightLogId = 1
    /\ nextBloodworkId = 1
    /\ shown = NotShown
    /\ pc = [r \in Reqs |-> "idle"]
    /\ req = [r \in Reqs |-> NoReq]

\* add_set requests arrive at any time and interleave statement by statement
PrDropNext ==
    \/ \E r \in Reqs, u \in inputs.users : Begin(r, "add_set", u)
    \/ \E r \in Reqs :
          \/ AddSetSession(r) \/ AddSetExercise(r) \/ AddSetLast(r) \/ AddSetCommit(r)
          \/ PrQuery(r) \/ PrCommit(r)
          \/ Reply(r)

PrDropSpec == PrDropInit /\ [][PrDropNext]_vars

\* ------------------------------------------------------- measurements
\* A Float column holds NULL, a number <<v>>, or the float that is no number.
NotANumber == <<0, 0>>

\* float(text) of a field that parses
Float(raw) == IF raw.k = "nan" THEN NotANumber ELSE Some(raw.v)

\* float(text) raises ValueError
Unparsable(raw) == raw.k = "bad"

\* a < b and a > b on floats: every comparison with the float that is no
\* number is False
Below(f, b) == f # NotANumber /\ Val(f) < b
Above(f, b) == f # NotANumber /\ Val(f) > b

\* the value a store keeps of the float f it is given: PostgreSQL keeps the
\* float that is no number, SQLite binds it as NULL
Bound(f, keeps_nan) == IF f = NotANumber /\ ~keeps_nan THEN NULL ELSE f

\* weight_float <= 0 or weight_float > 500
WeightOutOfRange(f) == (f # NotANumber /\ Val(f) <= 0) \/ Above(f, 500)

\* body_fat_float < 0 or body_fat_float > 100, and the same test of
\* visceral_fat_float
PercentOutOfRange(f) == Below(f, 0) \/ Above(f, 100)

\* the optional fields: if body_fat: ... float(body_fat); None if absent
OptionalFloat(raw) == IF raw.k = "none" THEN NULL ELSE Float(raw)

\* the date of the form, or datetime.utcnow() if the field is absent
DateOr(raw, t) == IF raw.k = "none" THEN t ELSE raw.v

\* row of weight_logs
WeightLog(id, user_id, weight, body_fat_percentage, visceral_fat, logged_at) ==
    [id |-> id, user_id |-> user_id, weight |-> weight,
     body_fat_percentage |-> body_fat_percentage,
     visceral_fat |-> visceral_fat, logged_at |-> logged_at]

\* BloodworkLog.REFERENCE_RANGES: min and max of every field, in tenths of
\* the field's unit
REFERENCE_RANGES ==
    [testosterone_total |-> [min |-> 2880, max |-> 10080],
     testosterone_free |-> [min |-> 650, max |-> 2090],
     shbg |-> [min |-> 180, max |-> 540],
     oestradiol |-> [min |-> 110, max |-> 440],
     prolactin |-> [min |-> 40, max |-> 153],
     hba1c |-> [min |-> 40, max |-> 56],
     glucose_fasting |-> [min |-> 700, max |-> 990],
     insulin_fasting |-> [min |-> 20, max |-> 250],
     homa_index |-> [min |-> 0, max |-> 20]]

\* row of bloodwork_logs, with two of its nine fields: the handler and the
\* model treat the other seven as they treat these two
BloodworkLog(id, user_id, test_date, testosterone_total, hba1c) ==
    [id |-> id, user_id |-> user_id, test_date |-> test_date,
     testosterone_total |-> testosterone_total, hba1c |-> hba1c]

\* what add_weight_log answers to the form q before it touches the store: the
\* flash of the first test that fails, or "ok"
WeightLogVerdict(q) ==
    IF Unparsable(q.log_date) THEN "ValidationFailed"
    ELSE IF q.weight.k = "none" \/ Unparsable(q.weight) THEN "ValidationFailed"
    ELSE IF WeightOutOfRange(Float(q.weight)) THEN "OutOfRange"
    ELSE IF Unparsable(q.body_fat_percentage) THEN "ValidationFailed"
    ELSE IF q.body_fat_percentage.k # "none"
            /\ PercentOutOfRange(Float(q.body_fat_percentage)) THEN "OutOfRange"
    ELSE IF Unparsable(q.visceral_fat) THEN "ValidationFailed"
    ELSE IF q.visceral_fat.k # "none"
            /\ PercentOutOfRange(Float(q.visceral_fat)) THEN "OutOfRange"
    ELSE "ok"

\* add_weight_log: the form, its tests, and the insert with its commit, which
\* nothing catches; weight is NOT NULL
AddWeightLog(r) ==
    /\ pc[r] = "add_weight_log_commit"
    /\ \E d \in inputs.log_dates, w \in inputs.weights, bf \in inputs.body_fats,
          vf \in inputs.visceral_fats, keeps_nan \in BOOLEAN :
         LET q == [req[r] EXCEPT !.log_date = d, !.weight = w,
                                 !.body_fat_percentage = bf, !.visceral_fat = vf]
             verdict == WeightLogVerdict(q)
             row == WeightLog(nextWeightLogId, q.user,
                              Bound(Float(w), keeps_nan),
                              Bound(OptionalFloat(bf), keeps_nan),
                              Bound(OptionalFloat(vf), keeps_nan),
                              DateOr(d, now))
         IN IF verdict # "ok"
            THEN /\ ReturnWith(r, q, verdict)
                 /\ UNCHANGED <<weight_logs, nextWeightLogId>>
            ELSE IF IsNull(row.weight)
                 THEN /\ ReturnWith(r, q, "error500")
                      /\ UNCHANGED <<weight_logs, nextWeightLogId>>
                 ELSE /\ weight_logs' = weight_logs \cup {row}
                      /\ nextWeightLogId' = nextWeightLogId + 1
                      /\ ReturnWith(r, q, "ok")
    /\ UNCHANGED <<store, keys, history, now, inputs, bloodwork_logs,
                   nextBloodworkId, shown>>

\* add_bloodwork: strptime and every float() run inside one try whose
\* ValueError handler rolls back and flashes; nothing else tests a value
AddBloodwork(r) ==
    /\ pc[r] = "add_bloodwork_commit"
    /\ \E d \in inputs.test_dates, tt \in inputs.testosterone_totals,
          hb \in inputs.hba1cs :
         LET q == [req[r] EXCEPT !.test_date = d, !.testosterone_total = tt,
                                 !.hba1c = hb]
             row == BloodworkLog(nextBloodworkId, q.user, DateOr(d, now),
                                 OptionalFloat(tt), OptionalFloat(hb))
         IN IF Unparsable(d) \/ Unparsable(tt) \/ Unparsable(hb)
            THEN /\ ReturnWith(r, q, "ValidationFailed")
                 /\ UNCHANGED <<bloodwork_logs, nextBloodworkId>>
            ELSE /\ bloodwork_logs' = bloodwork_logs \cup {row}
                 /\ nextBloodworkId' = nextBloodworkId + 1
                 /\ ReturnWith(r, q, "ok")
    /\ UNCHANGED <<store, keys, history, now, inputs, weight_logs,
                   nextWeightLogId, shown>>

\* ---------------------------------------------------------- normalizer
\* round(x, 1) of the quotient x = num / den (den > 0), in tenths when num is
\* in thousandths of den: the nearest tenth.  Where the quotient lies exactly
\* between two tenths, the float the division produced lies a last bit
\* above or below it in a way this arithmetic does not follow, and round
\* gives one of the two.
Rounded(num, den) ==
    LET below == num \div den
        rem == num % den
    IN IF 2 * rem < den THEN {below}
       ELSE IF 2 * rem > den THEN {below + 1}
       ELSE {below, below + 1}

\* get_status with <= and >= for < and >
get_status_strict(row, field_name) ==
    LET value == row[field_name]
    IN IF IsNull(value) THEN "none"
       ELSE IF Val(value) <= REFERENCE_RANGES[field_name].min THEN "low"
       ELSE IF Val(value) >= REFERENCE_RANGES[field_name].max THEN "high"
       ELSE "normal"

\* BloodworkLog.get_status: None ("none"), 'low', 'high' or 'normal'
get_status(row, field_name) ==
    LET value == row[field_name]
    IN IF IsNull(value) THEN "none"
       ELSE IF field_name \notin DOMAIN REFERENCE_RANGES THEN "none"
       ELSE IF Val(value) < REFERENCE_RANGES[field_name].min THEN "low"
       ELSE IF Val(value) > REFERENCE_RANGES[field_name].max THEN "high"
       ELSE "normal"

\* BloodworkLog.get_percentage_of_range: the values the call can return, None
\* (NULL) or the percentage in tenths
get_percentage_of_range(row, field_name) ==
    LET value == row[field_name]
    IN IF IsNull(value) THEN {NULL}
       ELSE IF field_name \notin DOMAIN REFERENCE_RANGES THEN {NULL}
       ELSE LET ref_range == REFERENCE_RANGES[field_name]
                range_span == ref_range.max - ref_range.min
            IN {Some(p) : p \in Rounded(1000 * (Val(value) - ref_range.min), range_span)}

\* the two methods are called for a field of a stored panel
Normalize(row, field_name) ==
    /\ row \in bloodwork_logs
    /\ \E percentage \in get_percentage_of_range(row, field_name) :
         shown' = [field_name |-> field_name, status |-> get_status(row, field_name),
                   percentage |-> percentage]
    /\ UNCHANGED <<store, keys, history, now, inputs, weight_logs, bloodwork_logs,
                   nextWeightLogId, nextBloodworkId, pc, req>>

\* requests run one after another: one arrives only when no other is in flight
AllIdle == \A r \in Reqs : pc[r] = "idle"
SeqReq == CHOOSE r \in Reqs : TRUE

SeqNext ==
    \/ Tick
    \/ \E op \in Ops, u \in inputs.users : AllIdle /\ Begin(SeqReq, op, u)
    \/ \E r \in Reqs : Step(r)

SeqSpec == SeqInit /\ [][SeqNext]_vars

\* the same, for the clients that exercise the personal-record tracker
PrSpec == PrInit /\ [][SeqNext]_vars

\* the statements of the handlers of the catalog
CatalogStep(r) ==
    \/ AddExerciseQuery(r) \/ AddExerciseCommit(r)
    \/ DeleteGet(r) \/ DeletePrs(r) \/ DeleteLogs(r) \/ DeleteCommit(r)

\* the statements of start_workout, cancel_workout and add_set
LoggingStep(r) ==
    \/ StartQuery(r) \/ StartCommit(r)
    \/ CancelQuery(r) \/ CancelCommit(r)
    \/ AddSetSession(r) \/ AddSetExercise(r) \/ AddSetLast(r) \/ AddSetCommit(r)
    \/ PrQuery(r) \/ PrCommit(r)
    \/ Reply(r)

\* requests that start and cancel workouts, log sets and edit the catalog,
\* one after another
CatalogNext ==
    \/ \E op \in {"start", "cancel", "add_set"} \cup CatalogOps, u \in inputs.users :
          AllIdle /\ Begin(SeqReq, op, u)
    \/ \E r \in Reqs : LoggingStep(r)
    \/ \E r \in Reqs : CatalogStep(r)

CatalogSpec == CatalogInit /\ [][CatalogNext]_vars

\* requests of every kind, one after another
AllNext ==
    \/ \E op \in Ops \cup CatalogOps, u \in inputs.users :
          AllIdle /\ Begin(SeqReq, op, u)
    \/ \E r \in Reqs : Step(r)
    \/ \E r \in Reqs : CatalogStep(r)

AllSpec == AllInit /\ [][AllNext]_vars

\* measurements are logged one after another
MeasureInit == Fresh /\ inputs = Measuring
MeasureNext ==
    \/ \E op \in MeasureOps, u \in inputs.users : AllIdle /\ Begin(SeqReq, op, u)
    \/ \E r \in Reqs : AddWeightLog(r)
    \/ \E r \in Reqs : AddBloodwork(r)
    \/ \E r \in Reqs : Reply(r)

MeasureSpec == MeasureInit /\ [][MeasureNext]_vars

\* the values of a field that lie within Spread of the min or the max of its
\* reference range, and no value
NearRange(field_name) ==
    LET ref_range == REFERENCE_RANGES[field_name]
    IN {NULL} \cup {Some(v) : v \in (ref_range.min - Spread)..(ref_range.min + Spread)}
              \cup {Some(v) : v \in (ref_range.max - Spread)..(ref_range.max + Spread)}

\* one panel is stored, with any values add_bloodwork stores, and is shown
NormalizeInit ==
    /\ FreshLogging
    /\ inputs = Measuring
    /\ weight_logs = {}
    /\ nextWeightLogId = 1
    /\ \E tt \in NearRange("testosterone_total"), hb \in NearRange("hba1c") :
         bloodwork_logs = {BloodworkLog(1, 1, 0, tt, hb)}
    /\ nextBloodworkId = 2
    /\ shown = NotShown
NormalizeNext ==
    \E row \in bloodwork_logs, field_name \in {"testosterone_total", "hba1c"} :
        Normalize(row, field_name)

NormalizeSpec == NormalizeInit /\ [][NormalizeNext]_vars

\* the statements of delete_exercise
DeleteStep(r) == DeleteGet(r) \/ DeletePrs(r) \/ DeleteLogs(r) \/ DeleteCommit(r)

\* requests that start and cancel workouts, log sets and delete exercises
\* arrive at any time and interleave statement by statement
CatalogRaceNext ==
    \/ \E r \in Reqs, op \in {"start", "cancel", "add_set", "delete_exercise"},
          u \in inputs.users : Begin(r, op, u)
    \/ \E r \in Reqs : LoggingStep(r)
    \/ \E r \in Reqs : DeleteStep(r)

CatalogRaceSpec == CatalogRaceInit /\ [][CatalogRaceNext]_vars

\* ================================================================ claims
\* the open sessions of user u among the rows S
OpenIn(S, u) == {s \in S : s.user_id = u /\ s.end_time = NULL}

\* request r, of route op, returns in this step
Finishes(r, op) == req[r].op = op /\ pc[r] # "done" /\ pc'[r] = "done"

\* request r executes the statement at label in this step
Executes(r, label) == pc[r] = label /\ pc'[r] # label

Rejections ==
    {"NoActiveSession", "InvalidSetType", "ExerciseNotFound", "OutOfRange",
     "ValidationFailed"}

\* C1: in every reachable state, under every interleaving of the statements of
\* concurrent requests, every user has at most one session whose end_time is
\* NULL.  The code violates it: see TwoStartsBothOpen.
OpenSessionInvariant ==
    \A u \in inputs.users : Cardinality(OpenIn(sessions, u)) <= 1

\* C2: when requests run one after another, a start request returns with
\* exactly one open session of its user; when one was open before, the tables
\* of sessions and sets are as they were (same session, same start_time, same
\* sets, no further session).
StartIdempotent ==
    [][\A r \in Reqs : Finishes(r, "start") =>
          LET u == req[r].user
          IN /\ req'[r].result = "ok"
             /\ Cardinality(OpenIn(sessions', u)) = 1
             /\ OpenIn(sessions, u) # {} => sessions' = sessions /\ logs' = logs]_vars

\* a start request has returned for a user whose only open session already
\* holds a set: the session was open before the request came
StartOnOpenSession ==
    \E r \in Reqs :
        /\ pc[r] = "done" /\ req[r].op = "start" /\ req[r].result = "ok"
        /\ Cardinality(OpenIn(sessions, req[r].user)) = 1
        /\ \E s \in OpenIn(sessions, req[r].user), l \in logs : l.session_id = s.id

\* C3: a start request that has passed the existence check always inserts its
\* session, also when the user has an open session by then: the store has no
\* constraint that rejects it.
StartRaceBothInsert ==
    [][\A r \in Reqs : Executes(r, "start_commit") =>
          LET u == req[r].user
          IN /\ pc'[r] = "done" /\ req'[r].result = "ok"
             /\ Cardinality(OpenIn(sessions', u)) = Cardinality(OpenIn(sessions, u)) + 1]_vars

\* two start requests of one user have both returned and the user has two
\* open sessions
TwoStartsBothOpen ==
    \E r1, r2 \in Reqs :
        /\ r1 # r2
        /\ \A r \in {r1, r2} : pc[r] = "done" /\ req[r].op = "start" /\ req[r].result = "ok"
        /\ req[r1].user = req[r2].user
        /\ Cardinality(OpenIn(sessions, req[r1].user)) = 2

\* C4: when requests run one after another, a finish request of a user with an
\* open session sets that session's end_time to the current time and its
\* duration_minutes to floor((end_time - start_time) / 60), which is not
\* negative; afterwards the user has no open session, and every other session
\* and every set is as it was.
FinishClosesSession ==
    [][\A r \in Reqs : req[r].op = "finish" =>
          LET u == req[r].user
          IN /\ Executes(r, "finish_query") /\ OpenIn(sessions, u) # {}
                  => pc'[r] = "finish_commit"
             /\ Executes(r, "finish_commit") =>
                  \E s \in OpenIn(sessions, u) :
                      LET d == (now - s.start_time) \div 60
                      IN /\ s.id = Val(req[r].sid)
                         /\ d >= 0
                         /\ sessions' = (sessions \ {s}) \cup
                                {[s EXCEPT !.end_time = Some(now),
                                           !.duration_minutes = Some(d)]}
                         /\ OpenIn(sessions', u) = {}
                         /\ logs' = logs
                         /\ pc'[r] = "done" /\ req'[r].result = "ok"]_vars

\* a finish request has just closed a session that lasted one minute and a
\* third and holds a set
FinishedWithSets ==
    \E r \in Reqs, s \in sessions :
        /\ pc[r] = "done" /\ req[r].op = "finish" /\ req[r].user = s.user_id
        /\ s.end_time = Some(now) /\ s.duration_minutes = Some(1)
        /\ Val(s.end_time) - s.start_time > 60
        /\ \E l \in logs : l.session_id = s.id

\* C5: when requests run one after another, a cancel request of a user with an
\* open session deletes that session row and every set of it, and nothing
\* else: afterwards no set refers to the session, the user has no open
\* session, and the finished sessions and their sets are as they were.
CancelDeletesSessionAndSets ==
    [][\A r \in Reqs : req[r].op = "cancel" =>
          LET u == req[r].user
          IN /\ Executes(r, "cancel_query") /\ OpenIn(sessions, u) # {}
                  => pc'[r] = "cancel_commit"
             /\ Executes(r, "cancel_commit") =>
                  \E s \in OpenIn(sessions, u) :
                      /\ s.id = Val(req[r].sid)
                      /\ sessions' = sessions \ {s}
                      /\ logs' = {l \in logs : l.session_id # s.id}
                      /\ OpenIn(sessions', u) = {}
                      /\ pc'[r] = "done" /\ req'[r].result = "ok"]_vars

\* a cancel request has returned, a set that was logged is gone, and the user
\* still has a finished session with its set
CancelledWithSets ==
    \E r \in Reqs, s \in sessions :
        /\ pc[r] = "done" /\ req[r].op = "cancel" /\ req[r].user = s.user_id
        /\ Cardinality(logs) < nextLogId - 1
        /\ s.end_time # NULL
        /\ \E l \in logs : l.session_id = s.id

\* C6: a finish or cancel request that finds no open session of its user, and
\* a start request that finds one, return normally and leave sessions, sets,
\* personal records and the catalog unchanged.
NoOpsChangeNothing ==
    [][\A r \in Reqs :
          LET u == req[r].user
              noop == \/ /\ pc[r] \in {"finish_query", "cancel_query"}
                         /\ OpenIn(sessions, u) = {}
                      \/ /\ pc[r] = "start_query"
                         /\ OpenIn(sessions, u) # {}
          IN noop /\ pc'[r] # pc[r] =>
                /\ pc'[r] = "done" /\ req'[r].result = "ok"
                /\ UNCHANGED <<sessions, logs, prs, exercises>>]_vars

\* a finish and a cancel request have both returned normally while the user
\* never had a session
FinishAndCancelOnNothing ==
    \E r1, r2 \in Reqs :
        /\ pc[r1] = "done" /\ req[r1].op = "finish" /\ req[r1].result = "ok"
        /\ pc[r2] = "done" /\ req[r2].op = "cancel" /\ req[r2].result = "ok"
        /\ req[r1].user = req[r2].user
        /\ sessions = {} /\ nextSessionId = 1

\* C7: an add_set request that is rejected has written nothing: it returns
\* from one of its two validating statements, which leave sessions, sets,
\* personal records and the catalog unchanged.  It is rejected with
\* NoActiveSession when the user has no open session, with InvalidSetType when
\* set_type is neither warmup nor working, and with ExerciseNotFound when the
\* catalog has no exercise of the id sent.
RejectedAddSetChangesNothing ==
    [][\A r \in Reqs : req[r].op = "add_set" =>
          LET u == req[r].user
              q == req'[r]
          IN /\ Finishes(r, "add_set") /\ q.result \in Rejections =>
                  /\ pc[r] \in {"add_set_session", "add_set_exercise"}
                  /\ UNCHANGED <<sessions, logs, prs, exercises>>
             /\ Executes(r, "add_set_session") /\ OpenIn(sessions, u) = {} =>
                  pc'[r] = "done" /\ q.result = "NoActiveSession"
             /\ ( /\ Executes(r, "add_set_session") /\ OpenIn(sessions, u) # {}
                  /\ q.set_type \notin {"warmup", "working"} )
                  => pc'[r] = "done" /\ q.result = "InvalidSetType"
             /\ ( /\ Executes(r, "add_set_exercise")
                  /\ \A e \in exercises : e.id # req[r].exercise_id.v )
                  => pc'[r] = "done" /\ q.result = "ExerciseNotFound"]_vars

\* an add_set request of a user with an open session was rejected for reps or
\* weight out of range
RejectedOutOfRange ==
    \E r \in Reqs :
        /\ pc[r] = "done" /\ req[r].op = "add_set" /\ req[r].result = "OutOfRange"
        /\ OpenIn(sessions, req[r].user) # {}
        /\ req[r].reps.v \in 1..1000 /\ req[r].weight.v > 10000

\* C8: given an open session, a valid set_type and an existing exercise, an
\* add_set whose reps and weight are numbers (or whose weight is absent) is
\* accepted iff reps is in 1..1000 and the weight is absent or in 0..10000,
\* and is rejected with OutOfRange otherwise; an accepted set is stored with
\* the reps and the weight sent.
RangeBoundsExact ==
    [][\A r \in Reqs : req[r].op = "add_set" =>
          /\ ( /\ Executes(r, "add_set_exercise")
               /\ \E e \in exercises : e.id = req[r].exercise_id.v
               /\ req'[r].reps.k = "num" /\ req'[r].weight.k # "bad" )
               => LET n == req'[r].reps.v
                      w == req'[r].weight
                  IN IF n >= 1 /\ n <= 1000 /\ (w.k = "none" \/ (w.v >= 0 /\ w.v <= 10000))
                     THEN pc'[r] = "add_set_last"
                     ELSE pc'[r] = "done" /\ req'[r].result = "OutOfRange"
          /\ Executes(r, "add_set_commit") =>
                \E l \in logs' \ logs :
                    /\ logs' = logs \cup {l}
                    /\ l.reps = req[r].reps.v
                    /\ l.weight = IF req[r].weight.k = "none" THEN NULL
                                  ELSE Some(req[r].weight.v)]_vars

\* a set of 1 rep at weight 0 and a set of 1000 reps at weight 10000 are both
\* stored
BoundarySetsStored ==
    \E l1, l2 \in logs :
        /\ l1.reps = 1 /\ l1.weight = Some(0)
        /\ l2.reps = 1000 /\ l2.weight = Some(10000)

\* C9: when requests run one after another, the set_numbers of every (session,
\* exercise) pair are 1..N in the order of insertion: each set's number is the
\* count of the pair's sets inserted up to it, whatever was logged for other
\* exercises or in other sessions.
SetNumbersSequential ==
    \A l \in logs :
        l.set_number = Cardinality({m \in logs : /\ m.session_id = l.session_id
                                                 /\ m.exercise_id = l.exercise_id
                                                 /\ m.id <= l.id})

\* one session holds two sets of one exercise, numbered 1 and 2 in the order
\* of insertion
TwoSetsNumbered ==
    \E l1, l2 \in logs :
        /\ l1.session_id = l2.session_id /\ l1.exercise_id = l2.exercise_id
        /\ l1.id < l2.id /\ l1.set_number = 1 /\ l2.set_number = 2

\* C10: an add_set request that has read the last set_number always inserts
\* its row with the number it computed when its session and exercise exist,
\* also when a row of the same session, exercise and set_number exists by
\* then: the store has no constraint that rejects it.
AddSetRaceBothInsert ==
    [][\A r \in Reqs :
          ( /\ Executes(r, "add_set_commit")
            /\ \E s \in sessions : s.id = Val(req[r].sid)
            /\ \E e \in exercises : e.id = req[r].exercise_id.v )
            => /\ req'[r].result # "error500"
               /\ \E l \in logs' \ logs :
                    /\ logs' = logs \cup {l}
                    /\ l.session_id = Val(req[r].sid)
                    /\ l.exercise_id = req[r].exercise_id.v
                    /\ l.set_number = req[r].set_number]_vars

\* two sets of one session and one exercise carry the same set_number
DuplicateSetNumbers ==
    \E l1, l2 \in logs :
        /\ l1.id # l2.id
        /\ l1.session_id = l2.session_id /\ l1.exercise_id = l2.exercise_id
        /\ l1.set_number = l2.set_number

\* the personal records of user u for exercise ex among the rows P
RecordsIn(P, u, ex) == {p \in P : p.user_id = u /\ p.exercise_id = ex}

\* C11: update_pr, called for a working set of weight w and n reps of user u
\* and exercise ex, inserts the record (u, ex, w, n, now) when (u, ex) has
\* none, overwrites weight, reps and achieved_at of the record when w is
\* greater than its weight, and otherwise returns without writing.
PrUpsertRule ==
    [][\A r \in Reqs : req[r].op = "add_set" =>
          LET u == req[r].user
              ex == req[r].exercise_id.v
              w == req[r].weight.v
              n == req[r].reps.v
              cur == RecordsIn(prs, u, ex)
          IN /\ Executes(r, "pr_query") =>
                  /\ prs' = prs
                  /\ IF cur = {} \/ \E p \in cur : w > p.weight
                     THEN pc'[r] = "pr_commit"
                     ELSE pc'[r] = "done" /\ req'[r].result = "ok"
             /\ Executes(r, "pr_commit") =>
                  /\ pc'[r] = "done" /\ req'[r].result = "ok"
                  /\ IF cur = {}
                     THEN \E p \in prs' \ prs :
                            /\ prs' = prs \cup {p}
                            /\ p.user_id = u /\ p.exercise_id = ex
                            /\ p.weight = w /\ p.reps = n /\ p.achieved_at = now
                     ELSE \E p \in cur :
                            /\ w > p.weight
                            /\ prs' = (prs \ {p}) \cup
                                  {[p EXCEPT !.weight = w, !.reps = n,
                                             !.achieved_at = now]}]_vars

\* a working set of weight 100 and then, later, one of weight 200 and other
\* reps were logged; the record holds weight 200, the reps and the time of the
\* second set
PrRaised ==
    \E p \in prs, h1, h2 \in history :
        /\ h1.id < h2.id /\ h1.reps # h2.reps
        /\ h1.weight = Some(100) /\ h2.weight = Some(200)
        /\ p.weight = 200 /\ p.reps = h2.reps /\ p.achieved_at > 0
        /\ \A r \in Reqs : pc[r] = "idle"

\* C12: while an add_set request for a working set runs whose weight equals
\* the weight of the record of its user and exercise, no step of it changes
\* the personal records, whatever its reps: update_pr returns from its test
\* without writing, so reps and achieved_at stay those of the first set.
TieKeepsRecord ==
    [][\A r \in Reqs :
          ( /\ req[r].op = "add_set" /\ req[r].set_type = "working"
            /\ pc[r] \in {"add_set_commit", "pr_query"}
            /\ req[r].weight.k = "num"
            /\ \E p \in RecordsIn(prs, req[r].user, req[r].exercise_id.v) :
                   p.weight = req[r].weight.v )
            => /\ prs' = prs
               /\ pc'[r] \in {pc[r], "pr_query", "done"}
               /\ pc'[r] = "done" => req'[r].result = "ok"]_vars

\* sets of (10 reps, 100) and then (12 reps, 100) were logged, the second
\* request has returned, and the record still holds 10 reps and a time before
\* now
TieLeftFirstSet ==
    \E r \in Reqs, p \in prs, h1, h2 \in history :
        /\ pc[r] = "done" /\ req[r].op = "add_set" /\ req[r].result = "ok"
        /\ req[r].reps.v = 12 /\ req[r].weight.v = 100
        /\ h1.id < h2.id
        /\ h1.reps = 10 /\ h1.weight = Some(100) /\ h1.set_type = "working"
        /\ h2.reps = 12 /\ h2.weight = Some(100) /\ h2.set_type = "working"
        /\ p.weight = 100 /\ p.reps = 10 /\ p.achieved_at < now

\* C13: an add_set request that has stored a working set goes on to update_pr
\* when the set has a weight, whatever the weight in 0..10000, and returns
\* without it when the set has none; update_pr for weight 0 and no record
\* inserts a record of weight 0.  The code violates it for weight 0: see
\* app.py:337, where weight_float = 0.0 counts as false.
PrTriggeredByEveryWeight ==
    [][\A r \in Reqs :
          ( /\ Executes(r, "add_set_commit") /\ logs' # logs
            /\ req[r].set_type = "working" )
            => IF req[r].weight.k = "num"
               THEN pc'[r] = "pr_query"
               ELSE pc'[r] = "done" /\ req'[r].result = "ok" /\ prs' = prs]_vars

\* C14: no step of an add_set request whose set_type is warmup changes the
\* personal records, whatever its weight and whatever records exist: the
\* request stores its set and returns without calling update_pr.
WarmupKeepsRecords ==
    [][\A r \in Reqs :
          ( /\ pc'[r] # pc[r]
            /\ req[r].set_type = "warmup" \/ req'[r].set_type = "warmup" )
            => /\ prs' = prs
               /\ pc'[r] \notin {"pr_query", "pr_commit"}
               /\ Executes(r, "add_set_commit") =>
                      /\ Cardinality(logs') = Cardinality(logs) + 1
                      /\ pc'[r] = "done" /\ req'[r].result = "ok"]_vars

\* a warmup set of weight 200 was stored, its request has returned, and the
\* record of its user and exercise holds weight 100
WarmupAboveRecord ==
    \E r \in Reqs, p \in prs, l \in logs :
        /\ pc[r] = "done" /\ req[r].op = "add_set" /\ req[r].result = "ok"
        /\ req[r].set_type = "warmup" /\ req[r].weight.v = 200
        /\ l.set_type = "warmup" /\ l.weight = Some(200)
        /\ l.exercise_id = p.exercise_id /\ p.user_id = req[r].user
        /\ p.weight = 100

\* the working sets with a weight that user u ever logged for exercise ex
WeightedWorkingSets(u, ex) ==
    {h \in history : /\ h.user_id = u /\ h.exercise_id = ex
                     /\ h.set_type = "working" /\ h.weight # NULL}

\* C15: when requests run one after another and none is running, for every
\* user and every exercise of the catalog a personal record exists iff the
\* user ever logged a working set with a weight for the exercise (also in a
\* session cancelled since); its weight is the greatest weight of those sets
\* and its reps are those of the first set of that weight.  The code violates
\* it for sets of weight 0, which never reach update_pr (C13).
PrIsHistoricalMax ==
    (\A r \in Reqs : pc[r] \in {"idle", "done"}) =>
        \A u \in inputs.users, e \in exercises :
            LET ws == WeightedWorkingSets(u, e.id)
                cur == RecordsIn(prs, u, e.id)
            IN /\ cur # {} <=> ws # {}
               /\ \A p \in cur :
                    \E h \in ws :
                        /\ \A g \in ws : Val(g.weight) <= Val(h.weight)
                        /\ \A g \in ws : g.weight = h.weight => h.id <= g.id
                        /\ p.weight = Val(h.weight)
                        /\ p.reps = h.reps

\* C16: in every reachable state, under every interleaving of the statements
\* of concurrent requests, personal_records holds at most one row for every
\* user and exercise: when two add_set requests both find no record and both
\* insert, unique_user_exercise_pr rejects the second INSERT.
OneRecordPerUserExercise ==
    \A p1, p2 \in prs :
        p1.user_id = p2.user_id /\ p1.exercise_id = p2.exercise_id => p1 = p2

\* two add_set requests of one user for one exercise have both stored their
\* set and both found no record; one has inserted the record, the INSERT of
\* the other was rejected
SecondPrInsertRejected ==
    \E r1, r2 \in Reqs :
        /\ \A r \in {r1, r2} : pc[r] = "done" /\ req[r].op = "add_set"
        /\ req[r1].user = req[r2].user /\ req[r1].exercise_id = req[r2].exercise_id
        /\ req[r1].result = "ok" /\ req[r2].result = "error500"
        /\ Cardinality(history) = 2 /\ nextLogId = 3 /\ nextPrId = 2
        /\ Cardinality(RecordsIn(prs, req[r1].user, req[r1].exercise_id.v)) = 1

\* C17: the INSERT of the set and the read and write of update_pr are one
\* transaction, so that when the requests for two working sets of weights
\* w1 < w2 of one user and exercise run concurrently and have all returned,
\* the record holds w2 in every interleaving: no record is below the weight of
\* a working set ever stored.  The code violates it: add_set commits the set
\* (app.py:334) and update_pr reads and commits on its own (app.py:377, 392).
NoLostPrUpdate ==
    (\A r \in Reqs : pc[r] \in {"idle", "done"}) =>
        \A h \in history :
            ( /\ h.set_type = "working" /\ h.weight # NULL /\ h.weight # Some(0)
              /\ \E e \in exercises : e.id = h.exercise_id )
              => \E p \in RecordsIn(prs, h.user_id, h.exercise_id) :
                     p.weight >= Val(h.weight)

\* C18: when requests run one after another, an add_set request writes in two
\* of its steps only.  Its first commit inserts exactly one row of
\* workout_logs, in the open session of its user and for the exercise sent;
\* the commit of update_pr inserts or overwrites the one record of its user
\* and that exercise.  Sessions, the catalog, every other set and every other
\* record are unchanged by every step.
AddSetFootprint ==
    [][\A r \in Reqs :
          req[r].op = "add_set" /\ pc'[r] # pc[r] =>
             LET u == req[r].user
                 ex == req[r].exercise_id.v
                 Others(P) == {p \in P : ~(p.user_id = u /\ p.exercise_id = ex)}
             IN /\ sessions' = sessions /\ exercises' = exercises
                /\ IF pc[r] = "add_set_commit"
                   THEN \E l \in logs' \ logs :
                          /\ logs' = logs \cup {l}
                          /\ l.exercise_id = ex
                          /\ \E s \in OpenIn(sessions, u) : l.session_id = s.id
                   ELSE logs' = logs
                /\ IF pc[r] = "pr_commit"
                   THEN /\ Others(prs') = Others(prs)
                        /\ Cardinality(RecordsIn(prs', u, ex)) = 1
                   ELSE prs' = prs]_vars

\* an add_set request of one user has raised that user's record for an
\* exercise to 200 while the record of another user for the same exercise
\* stands at 100
RecordRaisedBesideAnother ==
    \E r \in Reqs, p1, p2 \in prs :
        /\ pc[r] = "done" /\ req[r].op = "add_set" /\ req[r].result = "ok"
        /\ p1.user_id = req[r].user /\ p1.exercise_id = req[r].exercise_id.v
        /\ p1.weight = 200 /\ req[r].weight.v = 200
        /\ p2.user_id # p1.user_id /\ p2.exercise_id = p1.exercise_id
        /\ p2.weight = 100
        /\ Cardinality(logs) = 2

\* s[i..j] is s without the whitespace at its ends
TrimmedAt(s, i, j) ==
    /\ \A k \in 1..Len(s) : k < i \/ k > j => s[k] = " "
    /\ i <= j => s[i] # " " /\ s[j] # " "

\* n and t are the same text when case is ignored
SameIgnoringCase(n, t) ==
    Len(n) = Len(t) /\ \A i \in 1..Len(t) : Lower(n[i]) = Lower(t[i])

\* every word of n starts in upper case and goes on in lower case
TitleCased(n) ==
    \A i \in 1..Len(n) :
        /\ IsUpper(n[i]) => i = 1 \/ ~IsCased(n[i - 1])
        /\ IsLower(n[i]) => i > 1 /\ IsCased(n[i - 1])

\* C19: when requests run one after another, add_exercise stores the name it
\* was sent trimmed and in title case, in one new row; when the catalog has an
\* exercise of the name so normalized it fails with DuplicateExercise and the
\* catalog is unchanged; and after every add_exercise or delete_exercise no
\* two exercises of the catalog have names that are equal when case is
\* ignored.
CatalogNamesNormalized ==
    [][/\ \A r \in Reqs : req[r].op = "add_exercise" /\ pc'[r] # pc[r] =>
            LET q == req'[r]
            IN \/ pc[r] = "done"
               \/ /\ pc[r] = "add_exercise_query"
                  /\ exercises' = exercises
                  /\ \E i \in 1..(Len(q.form_name) + 1), j \in 0..Len(q.form_name) :
                        LET t == SubSeq(q.form_name, i, j)
                        IN /\ TrimmedAt(q.form_name, i, j)
                           /\ SameIgnoringCase(q.name, t)
                           /\ Len(t) >= 2 => TitleCased(q.name)
                           /\ IF Len(t) < 2
                              THEN pc'[r] = "done" /\ q.result = "ValidationFailed"
                              ELSE IF \E e \in exercises : SameIgnoringCase(e.name, t)
                                   THEN pc'[r] = "done" /\ q.result = "DuplicateExercise"
                                   ELSE pc'[r] = "add_exercise_commit"
               \/ /\ pc[r] = "add_exercise_commit"
                  /\ q.result = "ok"
                  /\ \E e \in exercises' \ exercises :
                        /\ exercises' = exercises \cup {e}
                        /\ e.name = req[r].name
      /\ \A e1, e2 \in exercises' :
            e1 # e2 => ~SameIgnoringCase(e1.name, e2.name)]_vars

\* the exercise of id 1 was deleted, and an add_exercise request that sent
\* " bench press " has returned with the new exercise "Bench Press" stored
BenchPressStoredAgain ==
    \E r \in Reqs, e \in exercises :
        /\ pc[r] = "done" /\ req[r].op = "add_exercise" /\ req[r].result = "ok"
        /\ req[r].form_name = <<" ", "b", "e", "n", "c", "h", " ",
                                "p", "r", "e", "s", "s", " ">>
        /\ e.id = 3
        /\ e.name = <<"B", "e", "n", "c", "h", " ", "P", "r", "e", "s", "s">>
        /\ \A x \in exercises : x.id # 1

\* C20: a delete_exercise request for an id the catalog does not hold returns
\* NotFound and changes nothing.  For an id it holds, the one commit of the
\* request removes the exercise together with every set and every personal
\* record of every user that refers to it, and nothing else; or the deletion
\* fails and the exercise, the sets and the records all remain.  No other
\* step of the request changes the store.
DeleteAllOrNothing ==
    [][\A r \in Reqs : req[r].op = "delete_exercise" /\ pc'[r] # pc[r] =>
          LET id == req'[r].exercise_id.v
              held == \E e \in exercises : e.id = id
          IN \/ pc[r] = "done"
             \/ /\ pc[r] = "delete_get"
                /\ UNCHANGED <<sessions, logs, prs, exercises>>
                /\ IF held THEN pc'[r] = "delete_prs"
                   ELSE pc'[r] = "done" /\ req'[r].result = "NotFound"
             \/ /\ pc[r] \in {"delete_prs", "delete_logs"}
                /\ pc'[r] # "done"
                /\ UNCHANGED <<sessions, logs, prs, exercises>>
             \/ /\ pc[r] = "delete_commit"
                /\ pc'[r] = "done"
                /\ sessions' = sessions
                /\ \/ /\ req'[r].result = "ok"
                      /\ exercises' = {e \in exercises : e.id # req[r].exercise_id.v}
                      /\ logs' = {l \in logs : l.exercise_id # req[r].exercise_id.v}
                      /\ prs' = {p \in prs : p.exercise_id # req[r].exercise_id.v}
                   \/ /\ req'[r].result = "DeleteFailed"
                      /\ UNCHANGED <<logs, prs, exercises>>]_vars

\* two users had each logged a set and held a record for exercise 1; a
\* delete_exercise request for it has returned, and the exercise, both sets
\* and both records are gone while the other exercise and both sessions stay
DeletedWithSetsOfTwoUsers ==
    \E r \in Reqs, h1, h2 \in history :
        /\ pc[r] = "done" /\ req[r].op = "delete_exercise" /\ req[r].result = "ok"
        /\ req[r].exercise_id.v = 1
        /\ h1.user_id # h2.user_id /\ h1.exercise_id = 1 /\ h2.exercise_id = 1
        /\ nextPrId = 3
        /\ logs = {} /\ prs = {}
        /\ \A e \in exercises : e.id # 1
        /\ \E e \in exercises : e.id = 2
        /\ Cardinality(sessions) = 2

\* C21: in every reachable state, under every interleaving of the statements
\* of concurrent requests, every row of workout_logs and every row of
\* personal_records refers to an exercise of the catalog.  The code violates
\* it on a store that does not enforce foreign keys (SQLite as the application
\* opens it): add_set loads the exercise, delete_exercise commits, and add_set
\* inserts its set.
CatalogConsistent ==
    /\ \A l \in logs : \E e \in exercises : e.id = l.exercise_id
    /\ \A p \in prs : \E e \in exercises : e.id = p.exercise_id

\* C22: when requests run one after another, a row of workout_logs is never
\* changed, and a step in which it ceases to exist is the commit of a
\* cancel_workout request for its session, which is open and belongs to the
\* request's user, or the commit of a delete_exercise request for its
\* exercise.  No step of start_workout, finish_workout, add_set or
\* add_exercise removes or alters a row.
SetsImmutable ==
    [][\A l \in logs :
          \/ l \in logs' /\ \A m \in logs' : m.id = l.id => m = l
          \/ /\ \A m \in logs' : m.id # l.id
             /\ \E r \in Reqs :
                   \/ /\ req[r].op = "cancel" /\ Executes(r, "cancel_commit")
                      /\ \E s \in OpenIn(sessions, req[r].user) : s.id = l.session_id
                   \/ /\ req[r].op = "delete_exercise" /\ Executes(r, "delete_commit")
                      /\ req[r].exercise_id.v = l.exercise_id]_vars

\* the first set ever logged is stored in a session finished since; after it
\* another session was started, another set was logged and an exercise was
\* added
SetOutlivedRequests ==
    \E l \in logs, s \in sessions :
        /\ l.id = 1 /\ l.session_id = s.id /\ s.end_time # NULL
        /\ nextSessionId = 3 /\ nextLogId = 3 /\ nextExerciseId = 4
        /\ Cardinality(logs) = 2

\* C23: under every interleaving of the statements of concurrent requests, a
\* session whose end_time is set keeps its row as it is in every later state:
\* end_time and duration_minutes never change, the session is not open again,
\* and no cancel_workout deletes it.  The code violates it: a finish_workout
\* or cancel_workout request that loaded the session while it was open writes
\* after another finish_workout has closed it.
ClosedStaysClosed ==
    [][\A s \in sessions : s.end_time # NULL => s \in sessions']_vars

\* C24: when a store write of a request fails, every write of the request is
\* undone: an add_set request that ends in an error after it stored its set
\* (its INSERT or UPDATE of the personal record is rejected) leaves no row of
\* that set behind.  The code violates it: the set is committed at app.py:334,
\* before update_pr runs, and add_set catches nothing.
FailedAddSetLeavesNothing ==
    [][\A r \in Reqs :
          ( /\ Finishes(r, "add_set") /\ req'[r].result = "error500"
            /\ req[r].log_id # NULL )
            => \A l \in logs' : l.id # Val(req[r].log_id)]_vars

\* a field that is sent and whose text is the number of a value from lo to hi
Within(raw, lo, hi) == raw.k = "num" /\ lo <= raw.v /\ raw.v <= hi

\* the column holds what the field said, NULL for a field that is not sent
Carries(column, raw) == column = (IF raw.k = "none" THEN NULL ELSE Some(raw.v))

\* C25: a measurement submission, body weight or bloodwork, with a present
\* field that does not parse or lies outside its range (body weight in
\* (0, 500], body fat and visceral fat in [0, 100], a bloodwork field in the
\* range fixed for it) persists no row; every other submission persists
\* exactly one row, which carries exactly the submitted values.
MeasurementsValidated ==
    [][\A r \in Reqs :
          /\ Finishes(r, "add_weight_log") =>
               LET q == req'[r]
                   valid ==
                       /\ q.log_date.k # "bad"
                       /\ q.weight.k = "num" /\ 0 < q.weight.v /\ q.weight.v <= 500
                       /\ q.body_fat_percentage.k = "none"
                            \/ Within(q.body_fat_percentage, 0, 100)
                       /\ q.visceral_fat.k = "none" \/ Within(q.visceral_fat, 0, 100)
               IN IF valid
                  THEN \E row \in weight_logs' :
                          /\ row \notin weight_logs
                          /\ weight_logs' = weight_logs \cup {row}
                          /\ Carries(row.weight, q.weight)
                          /\ Carries(row.body_fat_percentage, q.body_fat_percentage)
                          /\ Carries(row.visceral_fat, q.visceral_fat)
                  ELSE weight_logs' = weight_logs
          /\ Finishes(r, "add_bloodwork") =>
               LET q == req'[r]
                   valid ==
                       /\ q.test_date.k # "bad"
                       /\ q.testosterone_total.k = "none"
                            \/ Within(q.testosterone_total,
                                      REFERENCE_RANGES.testosterone_total.min,
                                      REFERENCE_RANGES.testosterone_total.max)
                       /\ q.hba1c.k = "none"
                            \/ Within(q.hba1c, REFERENCE_RANGES.hba1c.min,
                                      REFERENCE_RANGES.hba1c.max)
               IN IF valid
                  THEN \E row \in bloodwork_logs' :
                          /\ row \notin bloodwork_logs
                          /\ bloodwork_logs' = bloodwork_logs \cup {row}
                          /\ Carries(row.testosterone_total, q.testosterone_total)
                          /\ Carries(row.hba1c, q.hba1c)
                  ELSE bloodwork_logs' = bloodwork_logs]_vars

\* the stored value of the field the Normalizer was last called for
ShownValue == LET row == CHOOSE l \in bloodwork_logs : TRUE IN row[shown.field_name]

\* What the Normalizer returned for a value v of a field with range
\* [min, max]: the status is low for v < min, high for v > max and normal
\* otherwise; the percentage, in tenths, is the tenth nearest to
\* (v - min) / (max - min) * 100; it is 0 for v = min and 100 for v = max;
\* below min it is negative (strictly) or not positive, above max it is above
\* 100 (strictly) or not below 100.
Normalized(strictly) ==
    (shown.field_name # "none" /\ ShownValue # NULL) =>
        LET v == Val(ShownValue)
            min == REFERENCE_RANGES[shown.field_name].min
            max == REFERENCE_RANGES[shown.field_name].max
            p == Val(shown.percentage)
            off == p * (max - min) - 1000 * (v - min)
        IN /\ shown.status \in {"low", "high", "normal"}
           /\ shown.status = "low" <=> v < min
           /\ shown.status = "high" <=> v > max
           /\ shown.status = "normal" <=> (min <= v /\ v <= max)
           /\ shown.percentage # NULL
           /\ 2 * off <= max - min /\ -2 * off <= max - min
           /\ v = min => p = 0
           /\ v = max => p = 1000
           /\ v < min => IF strictly THEN p < 0 ELSE p <= 0
           /\ v > max => IF strictly THEN p > 1000 ELSE p >= 1000

\* C26: for a bloodwork value v and a reference range [min, max] the
\* Normalizer returns status low iff v < min, high iff v > max and normal
\* otherwise (the bounds are normal), and percentage =
\* round((v - min) / (max - min) * 100, 1): 0 at v = min, 100 at v = max, not
\* above 0 below min and not below 100 above max.
NormalizerRule == Normalized(FALSE)

\* a value a tenth below min is shown as low with the percentage 0.0
JustBelowMinShown ==
    /\ shown.field_name = "testosterone_total"
    /\ ShownValue = Some(REFERENCE_RANGES.testosterone_total.min - 1)
    /\ shown.status = "low"
    /\ shown.percentage = Some(0)

\* C26 as it is stated: below min the percentage is negative, above max it is
\* above 100.
NormalizerRuleAsStated == Normalized(TRUE)

SetsOnlyIntoOpenSessions ==
    [][/\ \A l \in logs' : \E s \in sessions' : s.id = l.session_id
       /\ \A l \in logs' :
             (\A m \in logs : m.id # l.id) =>
                 \E s \in sessions : s.id = l.session_id /\ s.end_time = NULL]_vars

\* C29: under every interleaving of add_set requests, two that read the same
\* stored record before either writes included, no step lowers the weight of
\* the personal record of a user and an exercise.
PrWeightNeverDecreases ==
    [][\A p \in prs : \A q \in prs' :
          (q.user_id = p.user_id /\ q.exercise_id = p.exercise_id)
              => q.weight >= p.weight]_vars

\* the rows of user v: sessions, the sets of those sessions, and records
SessionsOfUser(S, v) == {s \in S : s.user_id = v}
SetsOfUser(L, S, v) == {l \in L : \E s \in SessionsOfUser(S, v) : s.id = l.session_id}
RecordsOfUser(P, v) == {p \in P : p.user_id = v}

\* C30: the statements of start_workout, finish_workout, cancel_workout and
\* add_set (with update_pr) of a request of user u leave the sessions, sets
\* and records of every other user v as they are: a step that changes rows of
\* v is a step of a request of v or of a delete_exercise request.
UserIsolation ==
    [][\A v \in inputs.users :
          ( \/ SessionsOfUser(sessions', v) # SessionsOfUser(sessions, v)
            \/ SetsOfUser(logs', sessions', v) # SetsOfUser(logs, sessions, v)
            \/ RecordsOfUser(prs', v) # RecordsOfUser(prs, v) )
            => \E r \in Reqs :
                  /\ pc'[r] # pc[r]
                  /\ req[r].user = v \/ req[r].op = "delete_exercise"]_vars

\* an add_set request of user 1 has stored a set and a record while user 2
\* has a session, a set and a record
LoggedBesideAnother ==
    \E r \in Reqs, s \in sessions, l \in logs, p2 \in prs, p1 \in prs :
        /\ pc[r] = "done" /\ req[r].op = "add_set" /\ req[r].user = 1
        /\ req[r].result = "ok"
        /\ s.user_id = 2 /\ l.session_id = s.id /\ p2.user_id = 2
        /\ p1.user_id = 1
        /\ Cardinality(SetsOfUser(logs, sessions, 1)) = 1

================================================================================
